---- MODULE Spec2Model ----
(***************************************************************************)
(* Model of lib/gtfs/robust-gtfs-wrapper.js: the CircuitBreaker class and  *)
(* the RobustGtfsWrapper orchestrator that owns two breakers (main,        *)
(* network).                                                               *)
(*                                                                         *)
(* Time: Date.now() is the variable now, counted in units of 1000 ms, so   *)
(* the backoff min(2^n * 1000, 30000) ms is min(2^n, 30) units.  A step of *)
(* the model is one run-to-completion segment of the event loop: the code  *)
(* between two real suspension points (the wrapped operation settling, a   *)
(* setTimeout firing).  Timers fire at their due time: Tick is disabled    *)
(* while a timer is due.                                                   *)
(*                                                                         *)
(* The wrapped operation gtfs.updateGtfsRealtime is the environment: each  *)
(* invocation settles with success or with one of OpErrors, or is still    *)
(* pending when the breaker's timer fires.                                 *)
(***************************************************************************)
EXTENDS Integers, FiniteSets, Sequences, TLC

\* ------------------------------------------------------------------ bounds
MaxTime == 5
MaxUpdates == 2
\* update() calls of the sequential specification SpecSeq
MaxSeqUpdates == 4
\* inputs of the health functions in SpecHealth: requests counted by a
\* breaker, consecutive failures, and how far lastSuccessfulUpdate and now
\* lie around the staleness limit
MaxRequests == 10
MaxFailures == 5
MaxAge == 2
\* update() calls that may be made at once in SpecOverlap
MaxOverlapUpdates == 6

\* ------------------------------------------------------- program constants
NULL == -1
DefaultFailureThreshold == 5
NetworkFailureThreshold == 3
MaxDelay == 30
DefaultTimeout == 30
DefaultRetries == 2
DefaultResetTimeout == 60
NetworkAfterFailures == 2
DegradedBelow == 50
WarningUpTo == 90
CriticalFailures == 5
WarningFailures == 1
StaleAfter == 300

Callers == {"u1", "u2"}
BreakerNames == {"main", "network"}

\* configuration values the environment variables may carry (units of 1 s)
Thresholds == {1, 2, 3}
RetryChoices == {1, 2}
TimeoutChoices == {1}
ResetChoices == {3}

\* An error is the set of markers it carries: "code_open" is error.code ===
\* 'CIRCUIT_OPEN'; "net" a message with 'fetch failed' or 'ECONNREFUSED';
\* "timeout" a message with 'Timeout'; "msg_open" a message with
\* 'CIRCUIT_OPEN'; "fmt" a message with 'gtfsRealtimeVersion' or 'protobuf'.
Markers == {"code_open", "net", "timeout", "msg_open", "fmt"}
OpErrors == {{"net"}, {"timeout"}, {"fmt"}, {}}
TimeoutError == {"timeout"}
CircuitOpenError == {"code_open"}

FallbackMessage == "Using cached realtime data due to update failures"

VARIABLES now, config, disableWrapper, nativeTimeoutSupported, wrapperEnabled,
          circuitBreakers, lastSuccessfulUpdate, consecutiveFailures,
          retryTracker, calls, timers, started, abandoned, ev

vars == <<now, config, disableWrapper, nativeTimeoutSupported, wrapperEnabled,
          circuitBreakers, lastSuccessfulUpdate, consecutiveFailures,
          retryTracker, calls, timers, started, abandoned, ev>>

Times == 0..MaxTime

\* JS arithmetic on null: null coerces to 0
Num(x) == IF x = NULL THEN 0 ELSE x

Min(a, b) == IF a < b THEN a ELSE b

RECURSIVE Pow2(_)
Pow2(n) == IF n <= 0 THEN 1 ELSE 2 * Pow2(n - 1)

RECURSIVE Gcd(_, _)
Gcd(a, b) == IF b = 0 THEN a ELSE Gcd(b, a % b)

\* --------------------------------------------------------- CircuitBreaker

\* `parseInt(x) || d`, `options.x || d`: an unset, unparsable or zero value
\* (all falsy, written 0 here) gives the default
OrDefault(v, d) == IF v = 0 THEN d ELSE v

\* stats.averageResponseTime is a JS number: a rational <<"num", n, d>> in
\* lowest terms, or what a division by zero leaves: NaN, +Infinity, -Infinity
AvgZero == <<"num", 0, 1>>
AvgNaN == <<"nan", 0, 1>>
AvgInf == <<"inf", 0, 1>>
AvgNegInf == <<"ninf", 0, 1>>

Ratio(n, d) == LET g == Gcd(n, d) IN <<"num", n \div g, d \div g>>

\* (averageResponseTime * (totalRequests - 1) + newTime) / totalRequests
AverageOf(avg, totalRequests, newTime) ==
    IF avg[1] = "nan" THEN AvgNaN
    ELSE IF avg[1] \in {"inf", "ninf"}
    THEN IF totalRequests = 1 THEN AvgNaN
         ELSE IF totalRequests = 0
         THEN (IF avg[1] = "inf" THEN AvgNegInf ELSE AvgInf)
         ELSE avg
    ELSE LET n == avg[2] * (totalRequests - 1) + newTime * avg[3]
         IN IF totalRequests = 0
            THEN (IF n > 0 THEN AvgInf ELSE IF n < 0 THEN AvgNegInf ELSE AvgNaN)
            ELSE Ratio(n, avg[3] * totalRequests)

updateAverageResponseTime(cb, newTime) ==
    [cb EXCEPT !.stats.averageResponseTime =
        AverageOf(cb.stats.averageResponseTime, cb.stats.totalRequests, newTime)]

NewCircuitBreaker(failureThreshold, timeout, resetTimeout) ==
    [failureThreshold |-> OrDefault(failureThreshold, DefaultFailureThreshold),
     timeout |-> timeout,
     resetTimeout |-> resetTimeout,
     failureCount |-> 0,
     lastFailureTime |-> NULL,
     state |-> "CLOSED",
     stats |-> [totalRequests |-> 0, successfulRequests |-> 0,
                failedRequests |-> 0, timeouts |-> 0, circuitOpenCount |-> 0,
                averageResponseTime |-> AvgZero,
                lastSuccessTime |-> NULL, lastFailureTime |-> NULL]]

\* faulty variant of CoolingDown: `<=` for `<`, one unit too long
CoolingDownInclusive(cb, t) == t - Num(cb.lastFailureTime) <= cb.resetTimeout

\* faulty variant of CoolingDown: an open circuit never becomes ready
CoolingDownForever(cb, t) == t >= Num(cb.lastFailureTime)

\* execute(): `now - this.lastFailureTime < this.resetTimeout`
CoolingDown(cb, t) == t - Num(cb.lastFailureTime) < cb.resetTimeout

\* faulty variant of executeBegin: the OPEN state never rejects
executeBeginNoGate(cb, t) ==
    LET counted == [cb EXCEPT !.stats.totalRequests = @ + 1]
    IN IF counted.state = "OPEN"
       THEN [cb |-> [counted EXCEPT !.state = "HALF_OPEN"], admitted |-> TRUE]
       ELSE [cb |-> counted, admitted |-> TRUE]

\* faulty variant of executeBegin: a rejected call restarts the cool-down
executeBeginRestartCoolDown(cb, t) ==
    LET counted == [cb EXCEPT !.stats.totalRequests = @ + 1]
    IN IF counted.state = "OPEN"
       THEN IF CoolingDown(counted, t)
            THEN [cb |-> [counted EXCEPT !.lastFailureTime = t], admitted |-> FALSE]
            ELSE [cb |-> [counted EXCEPT !.state = "HALF_OPEN"], admitted |-> TRUE]
       ELSE [cb |-> counted, admitted |-> TRUE]

\* faulty variant of executeBegin: a rejected call is not counted
executeBeginCountAdmitted(cb, t) ==
    LET counted == [cb EXCEPT !.stats.totalRequests = @ + 1]
    IN IF cb.state = "OPEN"
       THEN IF CoolingDown(cb, t)
            THEN [cb |-> cb, admitted |-> FALSE]
            ELSE [cb |-> [counted EXCEPT !.state = "HALF_OPEN"], admitted |-> TRUE]
       ELSE [cb |-> counted, admitted |-> TRUE]

\* execute() up to the call of fn(): the request is counted, an OPEN breaker
\* rejects while cooling down and otherwise turns HALF_OPEN
executeBegin(cb, t) ==
    LET counted == [cb EXCEPT !.stats.totalRequests = @ + 1]
    IN IF counted.state = "OPEN"
       THEN IF CoolingDown(counted, t)
            THEN [cb |-> counted, admitted |-> FALSE]
            ELSE [cb |-> [counted EXCEPT !.state = "HALF_OPEN"], admitted |-> TRUE]
       ELSE [cb |-> counted, admitted |-> TRUE]

\* faulty variant of onSuccess: the state is not set back to CLOSED
onSuccessKeepState(cb, t, responseTime) ==
    updateAverageResponseTime(
        [cb EXCEPT !.failureCount = 0,
                   !.stats.successfulRequests = @ + 1,
                   !.stats.lastSuccessTime = t],
        responseTime)

\* faulty variant of onSuccess: the breaker closes but keeps its count
onSuccessKeepCount(cb, t, responseTime) ==
    updateAverageResponseTime(
        [cb EXCEPT !.state = "CLOSED",
                   !.stats.successfulRequests = @ + 1,
                   !.stats.lastSuccessTime = t],
        responseTime)

onSuccess(cb, t, responseTime) ==
    updateAverageResponseTime(
        [cb EXCEPT !.failureCount = 0,
                   !.state = "CLOSED",
                   !.stats.successfulRequests = @ + 1,
                   !.stats.lastSuccessTime = t],
        responseTime)

\* faulty variant of onFailure: the circuit opens one failure early
onFailureEarly(cb, t, responseTime) ==
    LET counted == updateAverageResponseTime(
                       [cb EXCEPT !.failureCount = @ + 1,
                                  !.stats.failedRequests = @ + 1,
                                  !.stats.lastFailureTime = t,
                                  !.lastFailureTime = t],
                       responseTime)
    IN IF counted.failureCount + 1 >= counted.failureThreshold
       THEN [counted EXCEPT !.state = "OPEN", !.stats.circuitOpenCount = @ + 1]
       ELSE counted

\* faulty variant of onFailure: `>` for `>=`, the circuit opens one failure late
onFailureStrict(cb, t, responseTime) ==
    LET counted == updateAverageResponseTime(
                       [cb EXCEPT !.failureCount = @ + 1,
                                  !.stats.failedRequests = @ + 1,
                                  !.stats.lastFailureTime = t,
                                  !.lastFailureTime = t],
                       responseTime)
    IN IF counted.failureCount > counted.failureThreshold
       THEN [counted EXCEPT !.state = "OPEN", !.stats.circuitOpenCount = @ + 1]
       ELSE counted

onFailure(cb, t, responseTime) ==
    LET counted == updateAverageResponseTime(
                       [cb EXCEPT !.failureCount = @ + 1,
                                  !.stats.failedRequests = @ + 1,
                                  !.stats.lastFailureTime = t,
                                  !.lastFailureTime = t],
                       responseTime)
    IN IF counted.failureCount >= counted.failureThreshold
       THEN [counted EXCEPT !.state = "OPEN", !.stats.circuitOpenCount = @ + 1]
       ELSE counted

\* faulty variant of breakerGetHealthStatus: `<` for `<=` at the 90% limit
breakerGetHealthStatusStrict(cb) ==
    LET total == cb.stats.totalRequests
        succ == cb.stats.successfulRequests
    IN IF cb.state = "OPEN" THEN "CRITICAL"
       ELSE IF total > 0 /\ succ * 100 < DegradedBelow * total THEN "DEGRADED"
       ELSE IF total > 0 /\ succ * 100 < WarningUpTo * total THEN "WARNING"
       ELSE "HEALTHY"

\* CircuitBreaker.getHealthStatus(): successRate = (successful / total) * 100
\* is compared with 50 and 90; the comparisons are made on the exact ratio,
\* which the double agrees with for every total up to MaxRequests + 1
breakerGetHealthStatus(cb) ==
    LET total == cb.stats.totalRequests
        succ == cb.stats.successfulRequests
    IN IF cb.state = "OPEN" THEN "CRITICAL"
       ELSE IF total > 0 /\ succ * 100 < DegradedBelow * total THEN "DEGRADED"
       ELSE IF total > 0 /\ succ * 100 <= WarningUpTo * total THEN "WARNING"
       ELSE "HEALTHY"

\* the setTimeout callback of execute(): it runs whether or not fn() settled
timeoutCallback(cb) == [cb EXCEPT !.stats.timeouts = @ + 1]

\* ------------------------------------------------------- RobustGtfsWrapper

\* the constructor's this.config, from the raw environment values
NewConfig(timeout, retries, failureThreshold, resetTimeout) ==
    [timeout |-> OrDefault(timeout, DefaultTimeout),
     retries |-> OrDefault(retries, DefaultRetries),
     circuitBreakerFailureThreshold |-> OrDefault(failureThreshold, DefaultFailureThreshold),
     circuitBreakerResetTimeout |-> OrDefault(resetTimeout, DefaultResetTimeout)]

NewCircuitBreakers(cfg) ==
    [b \in BreakerNames |->
        IF b = "main"
        THEN NewCircuitBreaker(cfg.circuitBreakerFailureThreshold, cfg.timeout,
                               cfg.circuitBreakerResetTimeout)
        ELSE NewCircuitBreaker(NetworkFailureThreshold, cfg.timeout,
                               cfg.circuitBreakerResetTimeout)]

\* faulty variant of detectNativeCapabilities: a native timeout keeps the
\* wrapper enabled whatever the disable switch says
detectNativeCapabilitiesNativeFirst(hasTimeoutField, native, enabled, disabled) ==
    [nativeTimeoutSupported |-> IF hasTimeoutField THEN TRUE ELSE native,
     wrapperEnabled |-> IF disabled /\ ~hasTimeoutField THEN FALSE ELSE enabled]

\* detectNativeCapabilities: hasTimeoutField says whether gtfsConfig carries
\* realtimeTimeout, timeout or downloadTimeout; the result is the pair of flags
detectNativeCapabilities(hasTimeoutField, native, enabled, disabled) ==
    [nativeTimeoutSupported |-> IF hasTimeoutField THEN TRUE ELSE native,
     wrapperEnabled |-> IF disabled THEN FALSE ELSE enabled]

\* faulty variant of selectCircuitBreaker: `>` for `>=`
selectCircuitBreakerLate(failures) ==
    IF failures > NetworkAfterFailures THEN "network" ELSE "main"

selectCircuitBreaker(failures) ==
    IF failures >= NetworkAfterFailures THEN "network" ELSE "main"

classifyError(error) ==
    IF "code_open" \in error THEN "CIRCUIT_BREAKER_ERROR"
    ELSE IF "net" \in error THEN "NETWORK_ERROR"
    ELSE IF "timeout" \in error THEN "TIMEOUT_ERROR"
    ELSE IF "msg_open" \in error THEN "CIRCUIT_BREAKER_ERROR"
    ELSE IF "fmt" \in error THEN "DATA_FORMAT_ERROR"
    ELSE "UNKNOWN_ERROR"

\* faulty variant of shouldRetry: data-format errors are retried too
shouldRetryFormat(errorType) ==
    IF errorType = "CIRCUIT_BREAKER_ERROR" THEN FALSE ELSE TRUE

shouldRetry(errorType) ==
    IF errorType = "CIRCUIT_BREAKER_ERROR" THEN FALSE
    ELSE IF errorType \in {"NETWORK_ERROR", "TIMEOUT_ERROR"} THEN TRUE
    ELSE IF errorType = "DATA_FORMAT_ERROR" THEN FALSE
    ELSE TRUE

\* Math.min(Math.pow(2, attemptNumber) * 1000, 30000) ms, in units of 1000 ms
getRetryDelay(attemptNumber) == Min(Pow2(attemptNumber), MaxDelay)

\* retryTracker is a Map from operationId to a count >= 1; 0 stands for "no
\* entry".  The operationId `gtfs-rt-${Date.now()}` is the time it was made at.
EmptyTracker == [t \in Times |-> 0]

\* getCurrentRetryCount: the count before the call, and the map after it
getCurrentRetryCount(tracker, operationId) ==
    [count |-> tracker[operationId],
     tracker |-> [tracker EXCEPT ![operationId] = @ + 1]]

trackerDelete(tracker, operationId) == [tracker EXCEPT ![operationId] = 0]

\* faulty variant of onUpdateSuccess: consecutiveFailures is not reset
onUpdateSuccessKeepFailures(tracker, operationId, failures, t) ==
    [lastSuccessfulUpdate |-> t,
     consecutiveFailures |-> failures,
     retryTracker |-> IF operationId = NULL THEN tracker
                      ELSE [tracker EXCEPT ![operationId] = 0]]

\* onUpdateSuccess: the orchestrator's fields after a successful operation
onUpdateSuccess(tracker, operationId, failures, t) ==
    [lastSuccessfulUpdate |-> t,
     consecutiveFailures |-> 0,
     retryTracker |-> IF operationId = NULL THEN tracker
                      ELSE trackerDelete(tracker, operationId)]

\* what updateGtfsRealtime hands back: the operation's own result, the
\* fallback object, or a thrown error
NoValue == [kind |-> "none"]
OpResult == [kind |-> "result"]
Thrown(error) == [kind |-> "throw", error |-> error]

\* faulty variant of onUpdateFailure: the failure is not counted
onUpdateFailureNoCount(failures) == failures

\* onUpdateFailure (lightweight mode): this.consecutiveFailures++
onUpdateFailure(failures) == failures + 1

\* faulty variant of getGracefulFallback: no null for "never succeeded"
getGracefulFallbackNoNull(lastSuccess, t) ==
    [kind |-> "fallback",
     success |-> FALSE,
     fallbackApplied |-> TRUE,
     message |-> FallbackMessage,
     timeSinceLastSuccess |-> t - Num(lastSuccess)]

getGracefulFallback(lastSuccess, t) ==
    [kind |-> "fallback",
     success |-> FALSE,
     fallbackApplied |-> TRUE,
     message |-> FallbackMessage,
     timeSinceLastSuccess |->
        IF lastSuccess # NULL /\ lastSuccess # 0 THEN t - lastSuccess ELSE NULL]

\* faulty variant of lightweightCatch: the fallback instead of the error
lightweightCatchFallback(error, lastSuccess, t) == getGracefulFallback(lastSuccess, t)

\* the catch of lightweightMode ends with `throw error`
lightweightCatch(error, lastSuccess, t) == Thrown(error)

\* faulty variant of handleUpdateError: consecutiveFailures grows on every
\* failed attempt, retried or not
handleUpdateErrorCountsRetries(error, operationId, failures, tracker, lastSuccess, retries, t) ==
    LET errorType == classifyError(error)
        retryable == shouldRetry(errorType)
        cur == getCurrentRetryCount(tracker, operationId)
    IN IF "code_open" \in error
       THEN [errorType |-> errorType, retry |-> FALSE, delay |-> 0,
             consecutiveFailures |-> failures + 1,
             retryTracker |-> tracker,
             value |-> getGracefulFallback(lastSuccess, t)]
       ELSE IF retryable /\ cur.count < retries
       THEN [errorType |-> errorType, retry |-> TRUE,
             delay |-> getRetryDelay(cur.count + 1),
             consecutiveFailures |-> failures + 1,
             retryTracker |-> cur.tracker,
             value |-> NoValue]
       ELSE [errorType |-> errorType, retry |-> FALSE, delay |-> 0,
             consecutiveFailures |-> failures + 1,
             retryTracker |-> trackerDelete(cur.tracker, operationId),
             value |-> getGracefulFallback(lastSuccess, t)]

\* faulty variant of handleUpdateError: the terminal failure is re-thrown
handleUpdateErrorRethrow(error, operationId, failures, tracker, lastSuccess, retries, t) ==
    LET errorType == classifyError(error)
        retryable == shouldRetry(errorType)
        cur == getCurrentRetryCount(tracker, operationId)
    IN IF "code_open" \in error
       THEN [errorType |-> errorType, retry |-> FALSE, delay |-> 0,
             consecutiveFailures |-> failures + 1,
             retryTracker |-> tracker,
             value |-> getGracefulFallback(lastSuccess, t)]
       ELSE IF retryable /\ cur.count < retries
       THEN [errorType |-> errorType, retry |-> TRUE,
             delay |-> getRetryDelay(cur.count + 1),
             consecutiveFailures |-> failures,
             retryTracker |-> cur.tracker,
             value |-> NoValue]
       ELSE [errorType |-> errorType, retry |-> FALSE, delay |-> 0,
             consecutiveFailures |-> failures + 1,
             retryTracker |-> trackerDelete(cur.tracker, operationId),
             value |-> Thrown(error)]

\* handleUpdateError, as a function of the orchestrator's fields: what it
\* leaves in consecutiveFailures and retryTracker, and whether it sleeps
\* `delay` and re-enters fullProtectionMode or returns `value`
handleUpdateError(error, operationId, failures, tracker, lastSuccess, retries, t) ==
    LET errorType == classifyError(error)
        retryable == shouldRetry(errorType)
        cur == getCurrentRetryCount(tracker, operationId)
    IN IF "code_open" \in error
       THEN [errorType |-> errorType, retry |-> FALSE, delay |-> 0,
             consecutiveFailures |-> failures + 1,
             retryTracker |-> tracker,
             value |-> getGracefulFallback(lastSuccess, t)]
       ELSE IF retryable /\ cur.count < retries
       THEN [errorType |-> errorType, retry |-> TRUE,
             delay |-> getRetryDelay(cur.count + 1),
             consecutiveFailures |-> failures,
             retryTracker |-> cur.tracker,
             value |-> NoValue]
       ELSE [errorType |-> errorType, retry |-> FALSE, delay |-> 0,
             consecutiveFailures |-> failures + 1,
             retryTracker |-> trackerDelete(cur.tracker, operationId),
             value |-> getGracefulFallback(lastSuccess, t)]

\* faulty variant of getHealthStatus: the staleness test comes first and a
\* later branch overrides it
getHealthStatusStaleFirst(brs, failures, lastSuccess, t) ==
    IF \E b \in BreakerNames : brs[b].state = "OPEN" THEN "CRITICAL"
    ELSE IF failures >= CriticalFailures THEN "CRITICAL"
    ELSE IF failures >= WarningFailures THEN "WARNING"
    ELSE IF lastSuccess # NULL /\ lastSuccess # 0 /\ t - lastSuccess > StaleAfter
    THEN "DEGRADED"
    ELSE "HEALTHY"

\* faulty variant of getHealthStatus: an open circuit alone is only a WARNING
getHealthStatusIgnoreOpen(brs, failures, lastSuccess, t) ==
    LET overallHealth ==
            IF failures >= CriticalFailures THEN "CRITICAL"
            ELSE IF failures >= WarningFailures
                    \/ \E b \in BreakerNames : brs[b].state = "OPEN"
            THEN "WARNING"
            ELSE "HEALTHY"
    IN IF lastSuccess # NULL /\ lastSuccess # 0 /\ t - lastSuccess > StaleAfter
       THEN "DEGRADED"
       ELSE overallHealth

\* getHealthStatus().status: overallHealth from the breakers and
\* consecutiveFailures, then reassigned when the last success is too old
getHealthStatus(brs, failures, lastSuccess, t) ==
    LET hasOpenCircuit == \E b \in BreakerNames : brs[b].state = "OPEN"
        overallHealth ==
            IF hasOpenCircuit THEN "CRITICAL"
            ELSE IF failures >= CriticalFailures THEN "CRITICAL"
            ELSE IF failures >= WarningFailures THEN "WARNING"
            ELSE "HEALTHY"
    IN IF lastSuccess # NULL /\ lastSuccess # 0 /\ t - lastSuccess > StaleAfter
       THEN "DEGRADED"
       ELSE overallHealth

\* -------------------------------------------------------- routes/health.js

\* GET /health/gtfs: the HTTP status code and the status of the body, for the
\* status getHealthStatus() gave
gtfsRoute(status) ==
    [code |-> IF status = "CRITICAL" THEN 503
              ELSE IF status = "DEGRADED" THEN 503
              ELSE 200,
     status |-> status]

\* faulty variant of healthRoute: a DEGRADED feed also takes the service down
healthRouteStrict(status) ==
    IF status \in {"CRITICAL", "DEGRADED"}
    THEN [code |-> 503, status |-> "DEGRADED"]
    ELSE [code |-> 200, status |-> "OK"]

\* GET /health
healthRoute(status) ==
    IF status = "CRITICAL"
    THEN [code |-> 503, status |-> "DEGRADED"]
    ELSE [code |-> 200, status |-> "OK"]

\* Math.round(successRate * 100) / 100 of successful / total * 100, counted
\* in hundredths of a percent (8500 is 85); the rounding is done on the exact
\* ratio, which the double agrees with for every total drawn in SpecHealth
RoundedRate(successful, total) == (20000 * successful + total) \div (2 * total)

\* faulty variant of successRate: truncated to 2 decimals, not rounded
successRateTruncated(stats) ==
    IF stats.totalRequests > 0
    THEN (10000 * stats.successfulRequests) \div stats.totalRequests
    ELSE 0

\* GET /health/gtfs/metrics: successRate of one breaker's stats
successRate(stats) ==
    IF stats.totalRequests > 0
    THEN RoundedRate(stats.successfulRequests, stats.totalRequests)
    ELSE 0

\* `x ? Math.floor((now - x) / 1000) : null`, in units of 1000 ms
Ago(x, t) == IF x # NULL /\ x # 0 THEN t - x ELSE NULL

\* the metrics object of GET /health/gtfs/metrics
gtfsMetrics(brs, failures, lastSuccess, t) ==
    [kind |-> "metrics",
     timestamp |-> t,
     lastSuccessAgo |-> Ago(lastSuccess, t),
     consecutiveFailures |-> failures,
     circuitBreakers |->
        [b \in BreakerNames |->
            [successRate |-> successRate(brs[b].stats),
             lastSuccessAgo |-> Ago(brs[b].stats.lastSuccessTime, t),
             lastFailureAgo |-> Ago(brs[b].stats.lastFailureTime, t)]]]

\* ------------------------------------------------------------------ state

\* one caller of updateGtfsRealtime: where its async call chain is suspended
IdleCall == [pc |-> "idle", mode |-> "none", cb |-> "none", operationId |-> NULL,
             startTime |-> NULL, wakeAt |-> NULL, probe |-> FALSE,
             invocations |-> 0, failures |-> 0]

\* ev records what the last step did (a history variable)
EvNone == [kind |-> "init", call |-> "none", mode |-> "none", cb |-> "none",
           pre |-> "none", probe |-> FALSE, invoked |-> FALSE, rejected |-> FALSE,
           outcome |-> "none", errorType |-> "none", retried |-> FALSE,
           delay |-> 0, value |-> NoValue, invocations |-> 0, failures |-> 0,
           health |-> "none", error |-> {"none"},
           http |-> 0, body |-> "none", metrics |-> NoValue]

NoTimers == [b \in BreakerNames |-> [t \in Times |-> 0]]

\* setTimeout(..., this.timeout) in execute(); a timer due after MaxTime
\* cannot fire within the horizon and is not kept
AddTimer(tm, b, at) ==
    IF at \in Times THEN [tm EXCEPT ![b][at] = @ + 1] ELSE tm

Init ==
    /\ now = 1
    /\ \E to \in TimeoutChoices, re \in RetryChoices,
          th \in Thresholds, rs \in ResetChoices :
          /\ config = NewConfig(to, re, th, rs)
          /\ circuitBreakers = NewCircuitBreakers(NewConfig(to, re, th, rs))
    /\ disableWrapper \in BOOLEAN
    /\ nativeTimeoutSupported = FALSE
    /\ wrapperEnabled = TRUE
    /\ lastSuccessfulUpdate = NULL
    /\ consecutiveFailures = 0
    /\ retryTracker = EmptyTracker
    /\ calls = [c \in Callers |-> IdleCall]
    /\ timers = NoTimers
    /\ started = 0
    /\ abandoned = 0
    /\ ev = EvNone

\* ---------------------------------------------------------------- actions

\* the catch of fullProtectionMode: handleUpdateError on `error`, for the
\* attempt described by `call`; brs and tm are the breakers and timers the
\* attempt leaves
FullFailure(c, call, brs, tm, error, evb) ==
    LET h == handleUpdateError(error, call.operationId, consecutiveFailures,
                               retryTracker, lastSuccessfulUpdate,
                               config.retries, now)
    IN /\ circuitBreakers' = brs
       /\ timers' = tm
       /\ consecutiveFailures' = h.consecutiveFailures
       /\ retryTracker' = h.retryTracker
       /\ calls' = [calls EXCEPT ![c] =
                       IF h.retry
                       THEN [IdleCall EXCEPT !.pc = "sleeping", !.mode = "full",
                                             !.wakeAt = now + h.delay,
                                             !.invocations = call.invocations,
                                             !.failures = call.failures]
                       ELSE IdleCall]
       /\ ev' = [evb EXCEPT !.call = c, !.mode = "full", !.cb = call.cb,
                            !.errorType = h.errorType, !.retried = h.retry,
                            !.delay = h.delay, !.value = h.value,
                            !.invocations = call.invocations,
                            !.failures = call.failures]
       /\ UNCHANGED lastSuccessfulUpdate

\* fullProtectionMode up to its first suspension: a new operationId, the
\* breaker selected, execute() begun
FullProtectionMode(c, base, kind) ==
    LET b == selectCircuitBreaker(consecutiveFailures)
        r == executeBegin(circuitBreakers[b], now)
        brs == [circuitBreakers EXCEPT ![b] = r.cb]
        evb == [EvNone EXCEPT !.kind = kind, !.pre = circuitBreakers[b].state]
    IN IF r.admitted
       THEN LET call == [base EXCEPT !.pc = "inflight", !.mode = "full", !.cb = b,
                                     !.operationId = now, !.startTime = now,
                                     !.wakeAt = NULL,
                                     !.probe = (circuitBreakers[b].state = "OPEN"),
                                     !.invocations = @ + 1]
            IN /\ circuitBreakers' = brs
               /\ timers' = AddTimer(timers, b, now + r.cb.timeout)
               /\ calls' = [calls EXCEPT ![c] = call]
               /\ ev' = [evb EXCEPT !.call = c, !.mode = "full", !.cb = b,
                                    !.invoked = TRUE, !.probe = call.probe,
                                    !.invocations = call.invocations,
                                    !.failures = call.failures]
               /\ UNCHANGED <<consecutiveFailures, retryTracker, lastSuccessfulUpdate>>
       ELSE FullFailure(c, [base EXCEPT !.mode = "full", !.cb = b, !.operationId = now],
                        brs, timers, CircuitOpenError,
                        [evb EXCEPT !.rejected = TRUE])

\* updateGtfsRealtime(gtfs, gtfsConfig), up to its first suspension; at most
\* `limit` calls are made in a run
UpdateWithin(c, hasTimeoutField, limit) ==
    /\ calls[c].pc = "idle"
    /\ started < limit
    /\ started' = started + 1
    /\ LET d == IF lastSuccessfulUpdate = NULL
                THEN detectNativeCapabilities(hasTimeoutField, nativeTimeoutSupported,
                                              wrapperEnabled, disableWrapper)
                ELSE [nativeTimeoutSupported |-> nativeTimeoutSupported,
                      wrapperEnabled |-> wrapperEnabled]
       IN /\ nativeTimeoutSupported' = d.nativeTimeoutSupported
          /\ wrapperEnabled' = d.wrapperEnabled
          /\ IF ~d.wrapperEnabled \/ d.nativeTimeoutSupported
             THEN LET m == IF ~d.wrapperEnabled THEN "passthrough" ELSE "lightweight"
                  IN /\ calls' = [calls EXCEPT ![c] =
                            [IdleCall EXCEPT !.pc = "inflight", !.mode = m,
                                             !.startTime = now, !.invocations = 1]]
                     /\ ev' = [EvNone EXCEPT !.kind = "update", !.call = c, !.mode = m,
                                             !.invoked = TRUE, !.invocations = 1]
                     /\ UNCHANGED <<circuitBreakers, timers, consecutiveFailures,
                                    retryTracker, lastSuccessfulUpdate>>
             ELSE FullProtectionMode(c, IdleCall, "update")
    /\ UNCHANGED <<now, config, disableWrapper, abandoned>>

Update(c, hasTimeoutField) == UpdateWithin(c, hasTimeoutField, MaxUpdates)

\* the sleep(delay) of handleUpdateError is over: fullProtectionMode again
Wake(c) ==
    /\ calls[c].pc = "sleeping"
    /\ now >= calls[c].wakeAt
    /\ FullProtectionMode(c, calls[c], "wake")
    /\ UNCHANGED <<now, config, disableWrapper, nativeTimeoutSupported,
                   wrapperEnabled, started, abandoned>>

\* the wrapped operation resolves
OpSucceed(c) ==
    LET call == calls[c]
        evb == [EvNone EXCEPT !.kind = "settle", !.call = c, !.mode = call.mode,
                              !.outcome = "ok", !.value = OpResult,
                              !.probe = call.probe,
                              !.invocations = call.invocations,
                              !.failures = call.failures]
        \* a `native-...` id (lightweight mode) is never a key of retryTracker
        ok == onUpdateSuccess(retryTracker, call.operationId,
                              consecutiveFailures, now)
    IN /\ call.pc = "inflight"
       /\ calls' = [calls EXCEPT ![c] = IdleCall]
       /\ IF call.mode = "passthrough"
          THEN /\ ev' = evb
               /\ UNCHANGED <<circuitBreakers, lastSuccessfulUpdate,
                              consecutiveFailures, retryTracker>>
          ELSE IF call.mode = "lightweight"
          THEN \* onUpdateSuccess(`native-...`), then main.onSuccess
               /\ lastSuccessfulUpdate' = ok.lastSuccessfulUpdate
               /\ consecutiveFailures' = ok.consecutiveFailures
               /\ retryTracker' = ok.retryTracker
               /\ circuitBreakers' = [circuitBreakers EXCEPT !["main"] =
                                         onSuccess(@, now, now - call.startTime)]
               /\ ev' = [evb EXCEPT !.cb = "main", !.pre = circuitBreakers["main"].state]
          ELSE \* execute(): onSuccess; fullProtectionMode: onUpdateSuccess
               /\ circuitBreakers' = [circuitBreakers EXCEPT ![call.cb] =
                                         onSuccess(@, now, now - call.startTime)]
               /\ lastSuccessfulUpdate' = ok.lastSuccessfulUpdate
               /\ consecutiveFailures' = ok.consecutiveFailures
               /\ retryTracker' = ok.retryTracker
               /\ ev' = [evb EXCEPT !.cb = call.cb,
                                    !.pre = circuitBreakers[call.cb].state]
       /\ UNCHANGED <<now, config, disableWrapper, nativeTimeoutSupported,
                      wrapperEnabled, timers, started, abandoned>>

\* the wrapped operation rejects with `error`
OpFail(c, error) ==
    LET call == calls[c]
        evb == [EvNone EXCEPT !.kind = "settle", !.call = c, !.mode = call.mode,
                              !.outcome = "error", !.error = error,
                              !.probe = call.probe,
                              !.invocations = call.invocations,
                              !.failures = call.failures + 1]
    IN /\ call.pc = "inflight"
       /\ IF call.mode = "passthrough"
          THEN /\ calls' = [calls EXCEPT ![c] = IdleCall]
               /\ ev' = [evb EXCEPT !.value = Thrown(error),
                                    !.errorType = classifyError(error)]
               /\ UNCHANGED <<circuitBreakers, lastSuccessfulUpdate, timers,
                              consecutiveFailures, retryTracker>>
          ELSE IF call.mode = "lightweight"
          THEN \* onUpdateFailure, then main.onFailure, then the error is re-thrown
               /\ calls' = [calls EXCEPT ![c] = IdleCall]
               /\ consecutiveFailures' = onUpdateFailure(consecutiveFailures)
               /\ circuitBreakers' = [circuitBreakers EXCEPT !["main"] =
                                         onFailure(@, now, now - call.startTime)]
               /\ ev' = [evb EXCEPT !.value = lightweightCatch(error,
                                                  lastSuccessfulUpdate, now),
                                    !.cb = "main",
                                    !.pre = circuitBreakers["main"].state,
                                    !.errorType = classifyError(error)]
               /\ UNCHANGED <<lastSuccessfulUpdate, retryTracker, timers>>
          ELSE \* execute(): onFailure and re-throw; fullProtectionMode: catch
               FullFailure(c, [call EXCEPT !.failures = @ + 1],
                           [circuitBreakers EXCEPT ![call.cb] =
                               onFailure(@, now, now - call.startTime)],
                           timers, error,
                           [evb EXCEPT !.pre = circuitBreakers[call.cb].state])
       /\ UNCHANGED <<now, config, disableWrapper, nativeTimeoutSupported,
                      wrapperEnabled, started, abandoned>>

\* the executions of breaker b still pending whose timer is due at `at`
PendingAt(b, at) ==
    {c \in Callers : /\ calls[c].pc = "inflight"
                     /\ calls[c].mode = "full"
                     /\ calls[c].cb = b
                     /\ calls[c].startTime + circuitBreakers[b].timeout = at}

\* a setTimeout of execute() fires: stats.timeouts++ and reject(Timeout);
\* the rejection settles the race only if fn() has not settled it before.
\* The operation that lost the race goes on running; with `follow` it is
\* counted in abandoned until it settles.
TimerFireWith(b, at, follow) ==
    /\ timers[b][at] > 0
    /\ now >= at
    /\ LET tm == [timers EXCEPT ![b][at] = @ - 1]
           cb1 == timeoutCallback(circuitBreakers[b])
       IN IF PendingAt(b, at) = {}
          THEN /\ circuitBreakers' = [circuitBreakers EXCEPT ![b] = cb1]
               /\ timers' = tm
               /\ ev' = [EvNone EXCEPT !.kind = "stale", !.cb = b,
                                       !.pre = circuitBreakers[b].state]
               /\ UNCHANGED <<calls, lastSuccessfulUpdate, consecutiveFailures,
                              retryTracker, abandoned>>
          ELSE \E c \in PendingAt(b, at) :
                  /\ abandoned' = IF follow THEN abandoned + 1 ELSE abandoned
                  /\ FullFailure(c, [calls[c] EXCEPT !.failures = @ + 1],
                                 [circuitBreakers EXCEPT ![b] =
                                     onFailure(cb1, now, now - calls[c].startTime)],
                                 tm, TimeoutError,
                                 [EvNone EXCEPT !.kind = "settle",
                                                !.outcome = "timeout",
                                                !.error = TimeoutError,
                                                !.probe = calls[c].probe,
                                                !.pre = circuitBreakers[b].state])
    /\ UNCHANGED <<now, config, disableWrapper, nativeTimeoutSupported,
                   wrapperEnabled, started>>

\* Spec leaves the operations that lost the race aside: their settling runs
\* no code of the wrapper
TimerFire(b, at) == TimerFireWith(b, at, FALSE)

\* faulty variant of LateSettle: the late result is still recorded on the
\* main breaker
LateSettleRecorded(outcome) ==
    /\ abandoned > 0
    /\ abandoned' = abandoned - 1
    /\ ev' = [EvNone EXCEPT !.kind = "late", !.outcome = outcome]
    /\ circuitBreakers' = [circuitBreakers EXCEPT !["main"] =
                              IF outcome = "ok" THEN onSuccess(@, now, 0)
                              ELSE onFailure(@, now, 0)]
    /\ UNCHANGED <<now, config, disableWrapper, nativeTimeoutSupported,
                   wrapperEnabled, lastSuccessfulUpdate,
                   consecutiveFailures, retryTracker, calls, timers, started>>

\* an operation that lost the race of execute() to the timer settles, with
\* success or with an error: Promise.race has settled already and no
\* continuation of execute() is left to run
LateSettle(outcome) ==
    /\ abandoned > 0
    /\ abandoned' = abandoned - 1
    /\ ev' = [EvNone EXCEPT !.kind = "late", !.outcome = outcome]
    /\ UNCHANGED <<now, config, disableWrapper, nativeTimeoutSupported,
                   wrapperEnabled, circuitBreakers, lastSuccessfulUpdate,
                   consecutiveFailures, retryTracker, calls, timers, started>>

\* a timer or a sleep is due now
Due ==
    \/ \E b \in BreakerNames, at \in Times : timers[b][at] > 0 /\ at <= now
    \/ \E c \in Callers : calls[c].pc = "sleeping" /\ calls[c].wakeAt <= now

\* Date.now() advances
Tick ==
    /\ now < MaxTime
    /\ ~Due
    /\ now' = now + 1
    /\ ev' = [EvNone EXCEPT !.kind = "tick"]
    /\ UNCHANGED <<config, disableWrapper, nativeTimeoutSupported, wrapperEnabled,
                   circuitBreakers, lastSuccessfulUpdate, consecutiveFailures,
                   retryTracker, calls, timers, started, abandoned>>

Next ==
    \/ Tick
    \/ \E c \in Callers, hasTimeoutField \in BOOLEAN : Update(c, hasTimeoutField)
    \/ \E c \in Callers : Wake(c)
    \/ \E c \in Callers : OpSucceed(c)
    \/ \E c \in Callers, error \in OpErrors : OpFail(c, error)
    \/ \E b \in BreakerNames, at \in Times : TimerFire(b, at)

Spec == Init /\ [][Next]_vars

\* A deployment with a short cool-down (GTFS_CB_RESET_TIMEOUT = 2000, the
\* first backoff delay), so that a retry finds the circuit ready for its
\* probe, and with the operations that lost a race to the timer followed
\* until they settle.
RaceThresholds == {1, 2}

InitRace ==
    /\ now = 1
    /\ \E th \in RaceThresholds :
          /\ config = NewConfig(1, 1, th, 2)
          /\ circuitBreakers = NewCircuitBreakers(NewConfig(1, 1, th, 2))
    /\ disableWrapper = FALSE
    /\ nativeTimeoutSupported = FALSE
    /\ wrapperEnabled = TRUE
    /\ lastSuccessfulUpdate = NULL
    /\ consecutiveFailures = 0
    /\ retryTracker = EmptyTracker
    /\ calls = [c \in Callers |-> IdleCall]
    /\ timers = NoTimers
    /\ started = 0
    /\ abandoned = 0
    /\ ev = EvNone

RaceTimerFire(b, at) == TimerFireWith(b, at, TRUE)

NextRace ==
    \/ Tick
    \/ \E c \in Callers, hasTimeoutField \in BOOLEAN : Update(c, hasTimeoutField)
    \/ \E c \in Callers : Wake(c)
    \/ \E c \in Callers : OpSucceed(c)
    \/ \E c \in Callers, error \in OpErrors : OpFail(c, error)
    \/ \E b \in BreakerNames, at \in Times : RaceTimerFire(b, at)
    \/ \E outcome \in {"ok", "error"} : LateSettle(outcome)

SpecRace == InitRace /\ [][NextRace]_vars

\* An outage that ends.  One caller in full-protection mode keeps calling
\* updateGtfsRealtime, at most one call per second on average; the operation
\* may fail or hang only in the invocations made during the outage, and from
\* then on it resolves within the timeout.  The outage ends early enough for
\* the last timeout and the cool-down after it to fit in the time modelled.
InOutage(c) ==
    calls[c].startTime + config.timeout + config.circuitBreakerResetTimeout
        <= MaxTime

InitRecover ==
    /\ now = 1
    /\ \E re \in RetryChoices, th \in Thresholds :
          /\ config = NewConfig(1, re, th, 2)
          /\ circuitBreakers = NewCircuitBreakers(NewConfig(1, re, th, 2))
    /\ disableWrapper = FALSE
    /\ nativeTimeoutSupported = FALSE
    /\ wrapperEnabled = TRUE
    /\ lastSuccessfulUpdate = NULL
    /\ consecutiveFailures = 0
    /\ retryTracker = EmptyTracker
    /\ calls = [c \in Callers |-> IdleCall]
    /\ timers = NoTimers
    /\ started = 0
    /\ abandoned = 0
    /\ ev = EvNone

RecoverUpdate == UpdateWithin("u1", FALSE, now)

RecoverOpFail(error) == InOutage("u1") /\ OpFail("u1", error)

\* after the outage the operation resolves before its timer is due
RecoverTick ==
    /\ ~(/\ calls["u1"].pc = "inflight"
         /\ ~InOutage("u1")
         /\ calls["u1"].startTime + config.timeout <= now + 1)
    /\ Tick

NextRecover ==
    \/ RecoverTick
    \/ RecoverUpdate
    \/ Wake("u1")
    \/ OpSucceed("u1")
    \/ \E error \in OpErrors : RecoverOpFail(error)
    \/ \E b \in BreakerNames, at \in Times : TimerFire(b, at)

\* time advances, timers and sleeps end, the caller keeps calling and an
\* operation that is going to resolve does resolve
SpecRecover ==
    /\ InitRecover /\ [][NextRecover]_vars
    /\ WF_vars(RecoverTick)
    /\ WF_vars(RecoverUpdate)
    /\ WF_vars(Wake("u1"))
    /\ WF_vars(OpSucceed("u1"))
    /\ WF_vars(\E b \in BreakerNames, at \in Times : TimerFire(b, at))

\* The outage that ends, with update() calls that overlap.  Caller u1 makes
\* the first call, whose operation is slow: it resolves or is cut off by the
\* timer.  Caller u2 keeps calling; its operations answer at once, during
\* the outage possibly with a malformed payload.  Up to MaxOverlapUpdates calls may be
\* made at once, and one more with every second that passes, so that a call
\* is always left to be made after the outage.
InitOverlap ==
    /\ now = 1
    /\ \E th \in {1, 3} :
          /\ config = NewConfig(1, 1, th, 2)
          /\ circuitBreakers = NewCircuitBreakers(NewConfig(1, 1, th, 2))
    /\ disableWrapper = FALSE
    /\ nativeTimeoutSupported = FALSE
    /\ wrapperEnabled = TRUE
    /\ lastSuccessfulUpdate = NULL
    /\ consecutiveFailures = 0
    /\ retryTracker = EmptyTracker
    /\ calls = [c \in Callers |-> IdleCall]
    /\ timers = NoTimers
    /\ started = 0
    /\ abandoned = 0
    /\ ev = EvNone

OverlapUpdate(c) ==
    /\ (c = "u1") <=> (started = 0)
    /\ UpdateWithin(c, FALSE, MaxOverlapUpdates + now - 1)

OverlapOpFail == InOutage("u2") /\ OpFail("u2", {"fmt"})

OverlapTick ==
    /\ calls["u2"].pc # "inflight"
    /\ ~(/\ calls["u1"].pc = "inflight"
         /\ ~InOutage("u1")
         /\ calls["u1"].startTime + config.timeout <= now + 1)
    /\ Tick

NextOverlap ==
    \/ OverlapTick
    \/ \E c \in Callers : OverlapUpdate(c)
    \/ \E c \in Callers : Wake(c)
    \/ \E c \in Callers : OpSucceed(c)
    \/ OverlapOpFail
    \/ \E b \in BreakerNames, at \in Times : TimerFire(b, at)

SpecOverlap ==
    /\ InitOverlap /\ [][NextOverlap]_vars
    /\ WF_vars(OverlapTick)
    /\ \A c \in Callers :
          /\ WF_vars(OverlapUpdate(c))
          /\ WF_vars(Wake(c))
          /\ WF_vars(OpSucceed(c))
    /\ WF_vars(\E b \in BreakerNames, at \in Times : TimerFire(b, at))

\* A call that is starved.  Caller u1 makes the first call, and every attempt
\* of it fails with a network error or is cut off by the timer; caller u2
\* keeps calling, at most one call per second on average, and its operations
\* resolve at once.  The breaker tolerates at least two failures in a row,
\* and its cool-down (3 s) is longer than the backoff delay (2 s), so that a
\* retry made while the circuit is open is rejected.
StarveThresholds == {2, 3}

InitStarve ==
    /\ now = 1
    /\ \E re \in RetryChoices, th \in StarveThresholds :
          /\ config = NewConfig(1, re, th, 3)
          /\ circuitBreakers = NewCircuitBreakers(NewConfig(1, re, th, 3))
    /\ disableWrapper = FALSE
    /\ nativeTimeoutSupported = FALSE
    /\ wrapperEnabled = TRUE
    /\ lastSuccessfulUpdate = NULL
    /\ consecutiveFailures = 0
    /\ retryTracker = EmptyTracker
    /\ calls = [c \in Callers |-> IdleCall]
    /\ timers = NoTimers
    /\ started = 0
    /\ abandoned = 0
    /\ ev = EvNone

StarveUpdate(c) ==
    /\ (c = "u1") <=> (started = 0)
    /\ UpdateWithin(c, FALSE, now + 1)

StarveOpFail == OpFail("u1", {"net"})

StarveTick == calls["u2"].pc # "inflight" /\ Tick

NextStarve ==
    \/ StarveTick
    \/ \E c \in Callers : StarveUpdate(c)
    \/ Wake("u1")
    \/ OpSucceed("u2")
    \/ StarveOpFail
    \/ \E b \in BreakerNames, at \in Times : TimerFire(b, at)

SpecStarve == InitStarve /\ [][NextStarve]_vars

\* classifyError and shouldRetry are functions of the error alone.
\* SpecClassify applies them to every combination of markers an error can
\* carry, on a wrapper just built.
ClassifyError(error) ==
    /\ ev' = [EvNone EXCEPT !.kind = "classify", !.error = error,
                            !.errorType = classifyError(error),
                            !.retried = shouldRetry(classifyError(error))]
    /\ UNCHANGED <<now, config, disableWrapper, nativeTimeoutSupported,
                   wrapperEnabled, circuitBreakers, lastSuccessfulUpdate,
                   consecutiveFailures, retryTracker, calls, timers, started,
                   abandoned>>

NextClassify == \E error \in SUBSET Markers : ClassifyError(error)

SpecClassify == Init /\ [][NextClassify]_vars

\* One caller that awaits each updateGtfsRealtime before making the next, as
\* the wrapper's tests do: fewer interleavings, more calls in a run.
SeqUpdate(hasTimeoutField) == UpdateWithin("u1", hasTimeoutField, MaxSeqUpdates)

NextSeq ==
    \/ Tick
    \/ \E hasTimeoutField \in BOOLEAN : SeqUpdate(hasTimeoutField)
    \/ Wake("u1")
    \/ OpSucceed("u1")
    \/ \E error \in OpErrors : OpFail("u1", error)
    \/ \E b \in BreakerNames, at \in Times : TimerFire(b, at)

SpecSeq == Init /\ [][NextSeq]_vars

\* A deployment with GTFS_REALTIME_RETRIES=0 (no retry wanted), and one
\* caller that awaits each call.
InitZeroRetries ==
    /\ now = 1
    /\ \E th \in Thresholds :
          /\ config = NewConfig(1, 0, th, 3)
          /\ circuitBreakers = NewCircuitBreakers(NewConfig(1, 0, th, 3))
    /\ disableWrapper = FALSE
    /\ nativeTimeoutSupported = FALSE
    /\ wrapperEnabled = TRUE
    /\ lastSuccessfulUpdate = NULL
    /\ consecutiveFailures = 0
    /\ retryTracker = EmptyTracker
    /\ calls = [c \in Callers |-> IdleCall]
    /\ timers = NoTimers
    /\ started = 0
    /\ abandoned = 0
    /\ ev = EvNone

SpecZeroRetries == InitZeroRetries /\ [][NextSeq]_vars

\* The health functions read state, stats.totalRequests and
\* stats.successfulRequests of the breakers, consecutiveFailures,
\* lastSuccessfulUpdate and Date.now().  SpecHealth draws these from bounded
\* sets (a wrapper built with no environment variable set, some time into its
\* run) and applies the functions.
BreakerStates == {"CLOSED", "OPEN", "HALF_OPEN"}

\* the counts the tests of the metrics route set besides the small ones:
\* 170 of 200 and 60 of 75
RequestCounts == (0..MaxRequests) \cup {75, 200}
SuccessCounts == (0..MaxRequests) \cup {60, 170}

\* a breaker in `state` that has counted `total` requests, `succ` successes;
\* its last success and last failure, if any, were at time 1
BreakerWith(cb, state, total, succ) ==
    [cb EXCEPT !.state = state,
               !.failureCount = IF state = "CLOSED" THEN 0 ELSE cb.failureThreshold,
               !.lastFailureTime = IF total > succ THEN 1 ELSE NULL,
               !.stats.totalRequests = total,
               !.stats.successfulRequests = succ,
               !.stats.failedRequests = IF total > succ THEN total - succ ELSE 0,
               !.stats.lastSuccessTime = IF succ > 0 THEN 1 ELSE NULL,
               !.stats.lastFailureTime = IF total > succ THEN 1 ELSE NULL]

InitHealth ==
    /\ now \in StaleAfter .. (StaleAfter + MaxAge)
    /\ config = NewConfig(0, 0, 0, 0)
    /\ \E sm \in BreakerStates, sn \in BreakerStates,
          total \in RequestCounts, succ \in SuccessCounts :
          circuitBreakers =
              [b \in BreakerNames |->
                  IF b = "main"
                  THEN BreakerWith(NewCircuitBreakers(NewConfig(0, 0, 0, 0))[b],
                                   sm, total, succ)
                  ELSE BreakerWith(NewCircuitBreakers(NewConfig(0, 0, 0, 0))[b],
                                   sn, 0, 0)]
    /\ disableWrapper = FALSE
    /\ nativeTimeoutSupported = FALSE
    /\ wrapperEnabled = TRUE
    /\ lastSuccessfulUpdate \in {NULL} \cup (1..MaxAge)
    /\ consecutiveFailures \in 0..MaxFailures
    /\ retryTracker = EmptyTracker
    /\ calls = [c \in Callers |-> IdleCall]
    /\ timers = NoTimers
    /\ started = 0
    /\ abandoned = 0
    /\ ev = EvNone

\* robustGtfsWrapper.getHealthStatus(), as the health routes call it
GetHealthStatus ==
    /\ ev' = [EvNone EXCEPT !.kind = "health",
                            !.health = getHealthStatus(circuitBreakers,
                                           consecutiveFailures,
                                           lastSuccessfulUpdate, now)]
    /\ UNCHANGED <<now, config, disableWrapper, nativeTimeoutSupported,
                   wrapperEnabled, circuitBreakers, lastSuccessfulUpdate,
                   consecutiveFailures, retryTracker, calls, timers, started, abandoned>>

\* getStats().healthStatus of breaker b, as getHealthStats collects it
BreakerGetStats(b) ==
    /\ ev' = [EvNone EXCEPT !.kind = "stats", !.cb = b,
                            !.health = breakerGetHealthStatus(circuitBreakers[b])]
    /\ UNCHANGED <<now, config, disableWrapper, nativeTimeoutSupported,
                   wrapperEnabled, circuitBreakers, lastSuccessfulUpdate,
                   consecutiveFailures, retryTracker, calls, timers, started, abandoned>>

\* GET /health/gtfs
GetHealthGtfs ==
    LET status == getHealthStatus(circuitBreakers, consecutiveFailures,
                                  lastSuccessfulUpdate, now)
    IN /\ ev' = [EvNone EXCEPT !.kind = "GET /health/gtfs", !.health = status,
                               !.http = gtfsRoute(status).code,
                               !.body = gtfsRoute(status).status]
       /\ UNCHANGED <<now, config, disableWrapper, nativeTimeoutSupported,
                      wrapperEnabled, circuitBreakers, lastSuccessfulUpdate,
                      consecutiveFailures, retryTracker, calls, timers, started,
                      abandoned>>

\* GET /health
GetHealth ==
    LET status == getHealthStatus(circuitBreakers, consecutiveFailures,
                                  lastSuccessfulUpdate, now)
    IN /\ ev' = [EvNone EXCEPT !.kind = "GET /health", !.health = status,
                               !.http = healthRoute(status).code,
                               !.body = healthRoute(status).status]
       /\ UNCHANGED <<now, config, disableWrapper, nativeTimeoutSupported,
                      wrapperEnabled, circuitBreakers, lastSuccessfulUpdate,
                      consecutiveFailures, retryTracker, calls, timers, started,
                      abandoned>>

\* GET /health/gtfs/metrics
GetMetrics ==
    /\ ev' = [EvNone EXCEPT !.kind = "GET /health/gtfs/metrics", !.http = 200,
                            !.metrics = gtfsMetrics(circuitBreakers,
                                            consecutiveFailures,
                                            lastSuccessfulUpdate, now)]
    /\ UNCHANGED <<now, config, disableWrapper, nativeTimeoutSupported,
                   wrapperEnabled, circuitBreakers, lastSuccessfulUpdate,
                   consecutiveFailures, retryTracker, calls, timers, started,
                   abandoned>>

NextHealth ==
    \/ GetHealthStatus
    \/ \E b \in BreakerNames : BreakerGetStats(b)
    \/ GetHealthGtfs
    \/ GetHealth
    \/ GetMetrics

SpecHealth == InitHealth /\ [][NextHealth]_vars

\* ----------------------------------------------------------------- claims

\* the last step began an execute() of a full-protection attempt
BeganExecute == ev.kind \in {"update", "wake"} /\ ev.mode = "full"

\* the last step settled the execute() of a full-protection attempt
SettledExecute == ev.kind = "settle" /\ ev.mode = "full"

\* the call of the last step has returned to its caller
Returned == ev.call \in Callers /\ calls[ev.call].pc = "idle"

\* C1: starting from a fresh breaker, while every execute() call made so far
\* has failed (k calls, k failures, no success), the breaker is CLOSED with
\* circuitOpenCount 0 as long as k < failureThreshold, and once k equals
\* failureThreshold T it is OPEN with circuitOpenCount 1 and failureCount T.
C1_ThresholdOpens ==
    \A b \in BreakerNames :
        LET cb == circuitBreakers[b]
            k == cb.stats.failedRequests
        IN (cb.stats.totalRequests = k /\ cb.stats.successfulRequests = 0) =>
              /\ k < cb.failureThreshold =>
                    /\ cb.state = "CLOSED"
                    /\ cb.stats.circuitOpenCount = 0
                    /\ cb.failureCount = k
              /\ k = cb.failureThreshold =>
                    /\ cb.state = "OPEN"
                    /\ cb.stats.circuitOpenCount = 1
                    /\ cb.failureCount = cb.failureThreshold

C1_Witness ==
    LET cb == circuitBreakers["main"]
    IN /\ cb.failureThreshold = 3
       /\ cb.stats.totalRequests = 3
       /\ cb.stats.failedRequests = 3
       /\ cb.state = "OPEN"
       /\ cb.stats.circuitOpenCount = 1

\* C2: an execute() call made while the breaker is OPEN and less than
\* resetTimeout after its last failure is rejected with the circuit-open
\* error, the operation is not invoked and the breaker stays OPEN.
C2_OpenRejects ==
    (BeganExecute /\ ev.pre = "OPEN"
       /\ now - circuitBreakers[ev.cb].lastFailureTime
             < circuitBreakers[ev.cb].resetTimeout) =>
        /\ ev.rejected
        /\ ev.errorType = "CIRCUIT_BREAKER_ERROR"
        /\ ~ev.invoked
        /\ calls[ev.call].pc # "inflight"
        /\ circuitBreakers[ev.cb].state = "OPEN"

C2_Witness ==
    /\ BeganExecute /\ ev.pre = "OPEN" /\ ev.rejected /\ ~ev.invoked
    /\ now - circuitBreakers[ev.cb].lastFailureTime
          = circuitBreakers[ev.cb].resetTimeout - 1

\* C3: an execute() call on an OPEN breaker is admitted exactly when
\* now - lastFailureTime >= resetTimeout: below that it is rejected and the
\* breaker stays OPEN; from that on the breaker turns HALF_OPEN and the
\* operation is invoked once, as the probe.
C3_AdmitAtReset ==
    (BeganExecute /\ ev.pre = "OPEN") =>
        LET cb == circuitBreakers[ev.cb]
            elapsed == now - cb.lastFailureTime
        IN IF elapsed >= cb.resetTimeout
           THEN /\ ev.invoked /\ ~ev.rejected /\ ev.probe
                /\ cb.state = "HALF_OPEN"
                /\ calls[ev.call].pc = "inflight"
                /\ calls[ev.call].cb = ev.cb
                /\ ev.invocations = ev.failures + 1
           ELSE /\ ev.rejected /\ ~ev.invoked
                /\ cb.state = "OPEN"

C3_Witness ==
    /\ BeganExecute /\ ev.pre = "OPEN" /\ ev.invoked
    /\ circuitBreakers[ev.cb].state = "HALF_OPEN"
    /\ now - circuitBreakers[ev.cb].lastFailureTime
          = circuitBreakers[ev.cb].resetTimeout

C5_FullNeverThrows ==
    ev.mode = "full" =>
        /\ ev.value.kind # "throw"
        /\ Returned =>
              \/ ev.value = OpResult
              \/ /\ ev.value.kind = "fallback"
                 /\ ev.value.success = FALSE
                 /\ ev.value.fallbackApplied = TRUE

C5_Witness ==
    /\ SettledExecute /\ Returned
    /\ ev.outcome = "timeout"
    /\ ev.value.kind = "fallback"

\* C6: a single update() call in full-protection mode invokes the wrapped
\* operation at most config.retries + 1 times.
C6_RetriesBounded ==
    \A c \in Callers :
        calls[c].mode = "full" => calls[c].invocations <= config.retries + 1

\* C7: a failure classified DATA_FORMAT_ERROR ends the update at once with
\* the fallback (one invocation when it is the first attempt); a circuit-open
\* rejection gives the fallback with no invocation and no backoff wait; a
\* retry only ever follows NETWORK_ERROR, TIMEOUT_ERROR or UNKNOWN_ERROR.
C7_NonRetryable ==
    /\ (SettledExecute /\ ev.errorType = "DATA_FORMAT_ERROR") =>
          /\ ~ev.retried /\ Returned
          /\ ev.value.kind = "fallback"
          /\ ev.invocations = ev.failures
          /\ ev.failures = 1 => ev.invocations = 1
    /\ (ev.mode = "full" /\ ev.rejected) =>
          /\ ev.errorType = "CIRCUIT_BREAKER_ERROR"
          /\ ~ev.invoked /\ ~ev.retried /\ ev.delay = 0 /\ Returned
          /\ ev.value.kind = "fallback"
    /\ ev.retried =>
          /\ ev.errorType \in {"NETWORK_ERROR", "TIMEOUT_ERROR", "UNKNOWN_ERROR"}
          /\ calls[ev.call].pc = "sleeping"

C7_Witness ==
    /\ SettledExecute /\ ev.errorType = "DATA_FORMAT_ERROR"
    /\ ev.failures = 1 /\ ev.invocations = 1
    /\ Returned /\ ev.value.kind = "fallback"

\* C8: when an attempt of an update() call succeeds after k failed attempts of
\* that call, the call has made exactly k + 1 invocations, it returns the
\* operation's result and consecutiveFailures is 0.
C8_RetryThenSuccess ==
    (SettledExecute /\ ev.outcome = "ok") =>
        /\ ev.invocations = ev.failures + 1
        /\ Returned
        /\ ev.value = OpResult
        /\ consecutiveFailures = 0
        /\ lastSuccessfulUpdate = now

C8_Witness ==
    /\ SettledExecute /\ ev.outcome = "ok"
    /\ config.retries = 2
    /\ ev.failures = 2 /\ ev.invocations = 3
    /\ consecutiveFailures = 0

\* C9: consecutiveFailures grows by exactly 1 in a step that ends an update()
\* call with the fallback (a circuit-open rejection included), is unchanged
\* by a failed attempt that is retried and by the start of an attempt, and is
\* 0 after any successful operation; no step changes it in another way.
C9_TerminalAccounting ==
    [][/\ ev'.value.kind = "fallback" =>
             consecutiveFailures' = consecutiveFailures + 1
       /\ ev'.retried => consecutiveFailures' = consecutiveFailures
       /\ ev'.invoked => consecutiveFailures' = consecutiveFailures
       /\ (ev'.outcome = "ok" /\ ev'.mode \in {"full", "lightweight"}) =>
             consecutiveFailures' = 0
       /\ consecutiveFailures' \in
             {consecutiveFailures, consecutiveFailures + 1, 0}]_vars

C9_Witness ==
    /\ SettledExecute /\ ev.value.kind = "fallback"
    /\ ev.failures = 2
    /\ consecutiveFailures = 1

\* C10: the fallback object has success FALSE, fallbackApplied TRUE and the
\* fixed message; its timeSinceLastSuccess is null when no operation has
\* succeeded yet and now - lastSuccessfulUpdate otherwise.
C10_FallbackShape ==
    ev.value.kind = "fallback" =>
        /\ ev.value.success = FALSE
        /\ ev.value.fallbackApplied = TRUE
        /\ ev.value.message = FallbackMessage
        /\ IF \A b \in BreakerNames : circuitBreakers[b].stats.successfulRequests = 0
           THEN ev.value.timeSinceLastSuccess = NULL
           ELSE /\ lastSuccessfulUpdate # NULL
                /\ ev.value.timeSinceLastSuccess = now - lastSuccessfulUpdate

C10_Witness ==
    /\ ev.value.kind = "fallback"
    /\ lastSuccessfulUpdate # NULL
    /\ ev.value.timeSinceLastSuccess = now - lastSuccessfulUpdate
    /\ ev.value.timeSinceLastSuccess >= 2

\* C11: a full-protection attempt goes through the network breaker exactly
\* when consecutiveFailures >= 2 at the moment it starts and through the main
\* breaker otherwise; a step that adds a request to the network breaker
\* starts from consecutiveFailures >= 2, and an attempt adds one request to
\* the breaker it selected and none to the other.
C11_BreakerSelection ==
    [][/\ (ev'.kind \in {"update", "wake"} /\ ev'.mode = "full") =>
             /\ ev'.cb = (IF consecutiveFailures >= 2 THEN "network" ELSE "main")
             /\ \A b \in BreakerNames :
                   circuitBreakers'[b].stats.totalRequests
                      = circuitBreakers[b].stats.totalRequests
                        + (IF b = ev'.cb THEN 1 ELSE 0)
       /\ circuitBreakers'["network"].stats.totalRequests
             # circuitBreakers["network"].stats.totalRequests =>
                consecutiveFailures >= 2]_vars

C11_Witness ==
    /\ BeganExecute /\ ev.cb = "network" /\ ev.invoked
    /\ consecutiveFailures = 2
    /\ circuitBreakers["network"].stats.totalRequests = 1

\* the last step was a call of the orchestrator's getHealthStatus()
AskedHealth == ev.kind = "health"

\* some breaker is OPEN
AnyOpen == \E b \in BreakerNames : circuitBreakers[b].state = "OPEN"

\* C12: when lastSuccessfulUpdate is unset or at most 5 minutes (300 s) old,
\* the overall health is CRITICAL if a breaker is OPEN or consecutiveFailures
\* >= 5, otherwise WARNING if consecutiveFailures >= 1, otherwise HEALTHY.
C12_FreshHealth ==
    (AskedHealth /\ (lastSuccessfulUpdate = NULL
                       \/ now - lastSuccessfulUpdate <= 300)) =>
        /\ (AnyOpen \/ consecutiveFailures >= 5) => ev.health = "CRITICAL"
        /\ (~AnyOpen /\ consecutiveFailures \in 1..4) => ev.health = "WARNING"
        /\ (~AnyOpen /\ consecutiveFailures = 0) => ev.health = "HEALTHY"

C12_Witness ==
    /\ AskedHealth /\ AnyOpen /\ consecutiveFailures = 0
    /\ lastSuccessfulUpdate # NULL /\ now - lastSuccessfulUpdate = 300
    /\ ev.health = "CRITICAL"

\* C13: when lastSuccessfulUpdate is set and more than 5 minutes (300 s) old,
\* the overall health is DEGRADED whatever the breakers' states and
\* consecutiveFailures are.
C13_StaleDegraded ==
    (AskedHealth /\ lastSuccessfulUpdate # NULL
       /\ now - lastSuccessfulUpdate > 300) =>
        ev.health = "DEGRADED"

C13_Witness ==
    /\ AskedHealth /\ AnyOpen /\ consecutiveFailures = 5
    /\ lastSuccessfulUpdate # NULL /\ now - lastSuccessfulUpdate = 301
    /\ ev.health = "DEGRADED"

\* C14: a breaker's health is CRITICAL when it is OPEN; otherwise DEGRADED
\* when it has requests and fewer than 50% succeeded; otherwise WARNING when
\* it has requests and at most 90% succeeded (9 of 10 included); otherwise
\* HEALTHY, in particular with no request at all.
C14_BreakerHealth ==
    ev.kind = "stats" =>
        LET cb == circuitBreakers[ev.cb]
            total == cb.stats.totalRequests
            succ == cb.stats.successfulRequests
        IN /\ cb.state = "OPEN" => ev.health = "CRITICAL"
           /\ (cb.state # "OPEN" /\ total > 0 /\ 2 * succ < total) =>
                 ev.health = "DEGRADED"
           /\ (cb.state # "OPEN" /\ total > 0 /\ 2 * succ >= total
                 /\ 10 * succ <= 9 * total) => ev.health = "WARNING"
           /\ (cb.state # "OPEN" /\ total > 0 /\ 10 * succ > 9 * total) =>
                 ev.health = "HEALTHY"
           /\ (cb.state # "OPEN" /\ total = 0) => ev.health = "HEALTHY"

C14_Witness ==
    /\ ev.kind = "stats"
    /\ circuitBreakers[ev.cb].state = "CLOSED"
    /\ circuitBreakers[ev.cb].stats.totalRequests = 10
    /\ circuitBreakers[ev.cb].stats.successfulRequests = 9
    /\ ev.health = "WARNING"

\* C15: with nativeTimeoutSupported set and the wrapper enabled an update()
\* call runs in lightweight mode and invokes the operation exactly once, with
\* no retry.  Its success sets lastSuccessfulUpdate to now and
\* consecutiveFailures to 0; its failure adds 1 to consecutiveFailures,
\* records one failure in the main breaker and raises the operation's own
\* error to the caller.
C15_Lightweight ==
    [][/\ (ev'.kind = "update" /\ nativeTimeoutSupported' /\ wrapperEnabled') =>
             /\ ev'.mode = "lightweight"
             /\ ev'.invoked /\ ev'.invocations = 1
       /\ \A c \in Callers :
             (calls[c].mode = "lightweight" /\ ev'.kind = "settle" /\ ev'.call = c) =>
                 /\ calls[c].invocations = 1
                 /\ ~ev'.retried
                 /\ calls'[c].pc = "idle"
                 /\ ev'.outcome = "ok" =>
                       /\ lastSuccessfulUpdate' = now
                       /\ consecutiveFailures' = 0
                       /\ ev'.value = OpResult
                 /\ ev'.outcome = "error" =>
                       /\ consecutiveFailures' = consecutiveFailures + 1
                       /\ lastSuccessfulUpdate' = lastSuccessfulUpdate
                       /\ circuitBreakers'["main"].stats.failedRequests
                             = circuitBreakers["main"].stats.failedRequests + 1
                       /\ circuitBreakers'["main"].failureCount
                             = circuitBreakers["main"].failureCount + 1
                       /\ circuitBreakers'["main"].lastFailureTime = now
                       /\ ev'.value = Thrown(ev'.error)]_vars

C15_Witness ==
    /\ ev.kind = "settle" /\ ev.mode = "lightweight" /\ ev.outcome = "error"
    /\ ev.invocations = 1
    /\ consecutiveFailures = 2
    /\ circuitBreakers["main"].stats.failedRequests = 2
    /\ ev.value = Thrown({"net"})

\* C16 as stated: in lightweight mode a failure of the operation ends the
\* update() call with the fallback object.
C16_LightweightFallback ==
    (ev.kind = "settle" /\ ev.mode = "lightweight" /\ ev.outcome = "error") =>
        ev.value.kind = "fallback"

\* C16, amended: in lightweight mode no update() call returns the fallback
\* object; a failure of the operation ends the call by raising an error.
C16_LightweightRaises ==
    ev.mode = "lightweight" =>
        /\ ev.value.kind # "fallback"
        /\ (ev.kind = "settle" /\ ev.outcome = "error") =>
              /\ ev.value.kind = "throw"
              /\ Returned

C16_Witness ==
    /\ ev.kind = "settle" /\ ev.mode = "lightweight" /\ ev.outcome = "error"
    /\ ev.value.kind = "throw"
    /\ circuitBreakers["main"].state = "OPEN"

\* C17: with the disable switch set every update() call runs in passthrough
\* mode, with or without a timeout field in the feed configuration: the
\* operation is invoked once, its result or its error reaches the caller
\* as it is, and no step changes consecutiveFailures, lastSuccessfulUpdate,
\* retryTracker or a breaker's state, failureCount or stats.
C17_Passthrough ==
    [][disableWrapper =>
          /\ ev'.kind = "update" =>
                /\ ev'.mode = "passthrough"
                /\ ev'.invoked /\ ev'.invocations = 1
          /\ ev'.kind = "settle" =>
                /\ calls[ev'.call].invocations = 1
                /\ calls'[ev'.call].pc = "idle"
                /\ ev'.outcome = "ok" => ev'.value = OpResult
                /\ ev'.outcome = "error" => ev'.value = Thrown(ev'.error)
          /\ ev'.kind \notin {"wake", "stale"}
          /\ ev'.outcome # "timeout"
          /\ UNCHANGED <<consecutiveFailures, lastSuccessfulUpdate, retryTracker>>
          /\ \A b \in BreakerNames :
                /\ circuitBreakers'[b].state = circuitBreakers[b].state
                /\ circuitBreakers'[b].failureCount = circuitBreakers[b].failureCount
                /\ circuitBreakers'[b].stats = circuitBreakers[b].stats]_vars

C17_Witness ==
    /\ disableWrapper /\ nativeTimeoutSupported
    /\ ev.kind = "settle" /\ ev.mode = "passthrough" /\ ev.outcome = "error"
    /\ ev.value = Thrown({"fmt"})
    /\ started = 2

\* C18: once the first update() call has started, nativeTimeoutSupported and
\* wrapperEnabled never change again, whatever later calls pass and whether
\* or not a call has succeeded.
C18_DetectOnce ==
    [][started >= 1 =>
          /\ nativeTimeoutSupported' = nativeTimeoutSupported
          /\ wrapperEnabled' = wrapperEnabled]_vars

\* C19: every change of a breaker's state is CLOSED -> OPEN, OPEN ->
\* HALF_OPEN, HALF_OPEN -> CLOSED or HALF_OPEN -> OPEN.
C19_Transitions ==
    [][\A b \in BreakerNames :
          circuitBreakers'[b].state # circuitBreakers[b].state =>
              <<circuitBreakers[b].state, circuitBreakers'[b].state>> \in
                  {<<"CLOSED", "OPEN">>, <<"OPEN", "HALF_OPEN">>,
                   <<"HALF_OPEN", "CLOSED">>, <<"HALF_OPEN", "OPEN">>}]_vars

\* C20: a breaker that is OPEN has failureCount >= failureThreshold.
C20_OpenAtThreshold ==
    \A b \in BreakerNames :
        circuitBreakers[b].state = "OPEN" =>
            circuitBreakers[b].failureCount >= circuitBreakers[b].failureThreshold

C20_Witness ==
    \E b \in BreakerNames :
        /\ circuitBreakers[b].state = "OPEN"
        /\ circuitBreakers[b].failureThreshold = 2
        /\ circuitBreakers[b].failureCount = 3
        /\ circuitBreakers[b].stats.circuitOpenCount = 2

\* C21: while a breaker is HALF_OPEN and its probe has not settled, no other
\* execute() call on that breaker invokes the wrapped operation.
C21_SingleProbe ==
    ~(/\ BeganExecute /\ ev.invoked
      /\ ev.pre = "HALF_OPEN"
      /\ \E c \in Callers \ {ev.call} :
            /\ calls[c].pc = "inflight"
            /\ calls[c].probe
            /\ calls[c].cb = ev.cb)

\* C22: stats.timeouts counts only the calls that failed by timeout, so a
\* breaker never has more timeouts than failed requests.
C22_TimeoutsAreFailures ==
    \A b \in BreakerNames :
        circuitBreakers[b].stats.timeouts <= circuitBreakers[b].stats.failedRequests

\* C23: GET /health/gtfs answers 503 exactly when the aggregated status is
\* CRITICAL or DEGRADED and 200 when it is HEALTHY or WARNING; GET /health
\* answers 503 with status DEGRADED exactly when the aggregated status is
\* CRITICAL, and 200 with status OK otherwise, DEGRADED included.
C23_HttpCodes ==
    LET status == getHealthStatus(circuitBreakers, consecutiveFailures,
                                  lastSuccessfulUpdate, now)
    IN /\ ev.kind = "GET /health/gtfs" =>
             /\ ev.health = status /\ ev.body = status
             /\ ev.http = 503 <=> status \in {"CRITICAL", "DEGRADED"}
             /\ status \in {"HEALTHY", "WARNING"} => ev.http = 200
             /\ ev.http \in {200, 503}
       /\ ev.kind = "GET /health" =>
             /\ ev.health = status
             /\ (ev.http = 503 /\ ev.body = "DEGRADED") <=> status = "CRITICAL"
             /\ status # "CRITICAL" => (ev.http = 200 /\ ev.body = "OK")
             /\ ev.http \in {200, 503}

C23_Witness ==
    /\ ev.kind = "GET /health"
    /\ ev.health = "DEGRADED"
    /\ ev.http = 200 /\ ev.body = "OK"

\* the metrics route has just answered
AskedMetrics == ev.kind = "GET /health/gtfs/metrics"

\* C25, as stated: each breaker's successRate in the metrics snapshot equals
\* successfulRequests / totalRequests * 100 (in hundredths: successRate *
\* totalRequests = 10000 * successfulRequests) and is 0 when totalRequests
\* is 0.  Fails for 1 success of 3 requests, reported as 33.33.
C25_ExactRate ==
    AskedMetrics =>
        \A b \in BreakerNames :
            LET st == circuitBreakers[b].stats
                m == ev.metrics.circuitBreakers[b]
            IN IF st.totalRequests = 0
               THEN m.successRate = 0
               ELSE m.successRate * st.totalRequests
                        = 10000 * st.successfulRequests

\* C25, amended: each breaker's successRate in the metrics snapshot is
\* successfulRequests / totalRequests * 100 rounded to the nearest hundredth,
\* halves upwards (so 170/200 gives 85 and 60/75 gives 80 exactly), and is 0
\* when totalRequests is 0; lastSuccessAgo and lastFailureAgo are null exactly
\* when the breaker never recorded a success, respectively a failure, and are
\* the elapsed seconds otherwise.
C25_RoundedRate ==
    AskedMetrics =>
        \A b \in BreakerNames :
            LET st == circuitBreakers[b].stats
                m == ev.metrics.circuitBreakers[b]
                t == st.totalRequests
                x == 20000 * st.successfulRequests
            IN /\ t = 0 => m.successRate = 0
               /\ t > 0 => /\ 2 * t * m.successRate - t <= x
                           /\ x < 2 * t * m.successRate + t
               /\ (t = 200 /\ st.successfulRequests = 170) => m.successRate = 8500
               /\ (t = 75 /\ st.successfulRequests = 60) => m.successRate = 8000
               /\ m.lastSuccessAgo = NULL <=> st.lastSuccessTime = NULL
               /\ m.lastFailureAgo = NULL <=> st.lastFailureTime = NULL
               /\ st.lastSuccessTime # NULL =>
                      m.lastSuccessAgo = now - st.lastSuccessTime
               /\ st.lastFailureTime # NULL =>
                      m.lastFailureAgo = now - st.lastFailureTime

C25_Witness ==
    /\ AskedMetrics
    /\ circuitBreakers["main"].stats.totalRequests = 3
    /\ circuitBreakers["main"].stats.successfulRequests = 2
    /\ ev.metrics.circuitBreakers["main"].successRate = 6667
    /\ ev.metrics.circuitBreakers["main"].lastFailureAgo # NULL
    /\ ev.metrics.circuitBreakers["network"].successRate = 0
    /\ ev.metrics.circuitBreakers["network"].lastSuccessAgo = NULL

\* an update() call of full-protection mode has just returned the
\* operation's result, and consecutiveFailures is 0
Recovered ==
    /\ ev.kind = "settle" /\ ev.mode = "full" /\ ev.outcome = "ok"
    /\ ev.value = OpResult
    /\ consecutiveFailures = 0

\* C24: recovery.  Whenever update() calls of full-protection mode have
\* failed (consecutiveFailures > 0), if the operation succeeds in every
\* invocation made after the outage and update() keeps being called while
\* time advances, a later update() call returns the operation's result and
\* leaves consecutiveFailures at 0.
C24_Recovery == (consecutiveFailures > 0) ~> Recovered

C24_Witness ==
    /\ Recovered
    /\ ev.pre = "HALF_OPEN"
    /\ circuitBreakers[ev.cb].stats.failedRequests >= 1
    /\ circuitBreakers[ev.cb].state = "CLOSED"

\* C26: every execute() call, admitted or rejected by an open circuit,
\* increases stats.totalRequests of its breaker by exactly 1, and no other
\* step changes it, so totalRequests is the number of execute() calls made
\* on the breaker.
C26_CountsEveryExecute ==
    [][\A b \in BreakerNames :
          circuitBreakers'[b].stats.totalRequests =
              circuitBreakers[b].stats.totalRequests
                  + (IF /\ ev'.kind \in {"update", "wake"}
                        /\ ev'.mode = "full"
                        /\ ev'.cb = b
                     THEN 1 ELSE 0)]_vars

C26_Witness ==
    /\ BeganExecute /\ ev.rejected
    /\ circuitBreakers[ev.cb].stats.totalRequests = 2
    /\ circuitBreakers[ev.cb].stats.failedRequests = 1
    /\ circuitBreakers[ev.cb].stats.successfulRequests = 0
    /\ \A c \in Callers : calls[c].pc # "inflight"

\* C27: when the timer of an execute() fires before the operation settles,
\* execute() fails with the timeout error and the breaker records exactly one
\* failure (failedRequests + 1, failureCount + 1, timeouts + 1, nothing else
\* counted); when the operation completes later, with success or with an
\* error, the breakers (state, failureCount, every counter) and the wrapper's
\* failure count stay as they are.
C27_TimeoutRace ==
    [][/\ (ev'.kind = "settle" /\ ev'.outcome = "timeout") =>
            LET old == circuitBreakers[ev'.cb]
                new == circuitBreakers'[ev'.cb]
            IN /\ ev'.error = TimeoutError
               /\ ev'.errorType = "TIMEOUT_ERROR"
               /\ new.stats.failedRequests = old.stats.failedRequests + 1
               /\ new.failureCount = old.failureCount + 1
               /\ new.stats.timeouts = old.stats.timeouts + 1
               /\ new.stats.successfulRequests = old.stats.successfulRequests
               /\ new.stats.totalRequests = old.stats.totalRequests
               /\ \A b \in BreakerNames \ {ev'.cb} :
                      circuitBreakers'[b] = circuitBreakers[b]
       /\ ev'.kind = "late" =>
            /\ circuitBreakers' = circuitBreakers
            /\ consecutiveFailures' = consecutiveFailures
            /\ lastSuccessfulUpdate' = lastSuccessfulUpdate]_vars

C27_Witness ==
    /\ ev.kind = "late" /\ ev.outcome = "ok"
    /\ circuitBreakers["main"].state = "OPEN"
    /\ circuitBreakers["main"].stats.timeouts = 1
    /\ circuitBreakers["main"].stats.failedRequests = 1
    /\ circuitBreakers["main"].stats.successfulRequests = 0

\* the step into the primed state is a call on breaker b completing with
\* success, respectively with a failure
SucceedsOn(b) ==
    /\ ev'.kind = "settle" /\ ev'.outcome = "ok"
    /\ ev'.mode \in {"full", "lightweight"} /\ ev'.cb = b

FailsOn(b) ==
    /\ ev'.kind = "settle" /\ ev'.outcome \in {"error", "timeout"}
    /\ ev'.mode \in {"full", "lightweight"} /\ ev'.cb = b

\* C28: failureCount counts consecutive failures.  A call completing with
\* success sets failureCount to 0 and the state to CLOSED; failureCount
\* changes in no other way than by 1 up when a call completes with a
\* failure; a CLOSED breaker has failureCount below failureThreshold and
\* leaves CLOSED only for OPEN, in the step where a failure brings
\* failureCount to failureThreshold.
C28_ConsecutiveFailures ==
    [][\A b \in BreakerNames :
          LET old == circuitBreakers[b]
              new == circuitBreakers'[b]
          IN /\ SucceedsOn(b) => (new.failureCount = 0 /\ new.state = "CLOSED")
             /\ FailsOn(b) => new.failureCount = old.failureCount + 1
             /\ new.failureCount # old.failureCount =>
                    (SucceedsOn(b) \/ FailsOn(b))
             /\ old.state = "CLOSED" => old.failureCount < old.failureThreshold
             /\ (old.state = "CLOSED" /\ new.state # "CLOSED") =>
                    /\ FailsOn(b)
                    /\ new.state = "OPEN"
                    /\ new.failureCount = new.failureThreshold]_vars

C28_Witness ==
    /\ SettledExecute /\ ev.outcome \in {"error", "timeout"}
    /\ ev.pre = "CLOSED"
    /\ circuitBreakers[ev.cb].state = "OPEN"
    /\ circuitBreakers[ev.cb].failureThreshold = 2
    /\ circuitBreakers[ev.cb].failureCount = 2
    /\ circuitBreakers[ev.cb].stats.failedRequests = 3
    /\ circuitBreakers[ev.cb].stats.successfulRequests = 1

\* C29: error classification is first-match in the order breaker-open marker
\* (the code CIRCUIT_OPEN or a message with CIRCUIT_OPEN), network signature,
\* timeout marker, data-format signature, default: an error with a
\* breaker-open marker is CIRCUIT_BREAKER_ERROR even if it also carries a
\* network or timeout marker, and an error with no marker is UNKNOWN_ERROR.
C29_FirstMatch ==
    ev.kind = "classify" =>
        ev.errorType =
            IF "code_open" \in ev.error \/ "msg_open" \in ev.error
            THEN "CIRCUIT_BREAKER_ERROR"
            ELSE IF "net" \in ev.error THEN "NETWORK_ERROR"
            ELSE IF "timeout" \in ev.error THEN "TIMEOUT_ERROR"
            ELSE IF "fmt" \in ev.error THEN "DATA_FORMAT_ERROR"
            ELSE "UNKNOWN_ERROR"

\* C30: retryTracker holds no entry for a finished operation: whenever an
\* update() call has returned and no update() call is in flight, retryTracker
\* is empty.
C30_TrackerEmptied ==
    (/\ started >= 1
     /\ \A c \in Callers : calls[c].pc = "idle") =>
        retryTracker = EmptyTracker

\* the last step was a failed attempt of a full-protection call that
\* handleUpdateError decided to retry
RetriedFailure ==
    /\ SettledExecute /\ ev.outcome \in {"error", "timeout"}
    /\ ev.retried

\* C31: backoff is exponential within one update() call: the wait before a
\* retry is min(2^attempts * 1000 ms, 30000 ms), attempts being the number of
\* attempts of that call that have failed so far, so the second retry of a
\* call waits longer than its first.
C31_ExponentialBackoff ==
    RetriedFailure => ev.delay = Min(Pow2(ev.failures), MaxDelay)

\* C32: each update() call has its own retry identity: a call whose first
\* attempt fails with a retryable error, in a wrapper configured with at
\* least one retry, is retried after the first backoff delay of 2000 ms,
\* whatever other update() calls in flight have done.
C32_OwnRetryBudget ==
    (/\ SettledExecute /\ ev.outcome \in {"error", "timeout"}
     /\ ev.failures = 1
     /\ shouldRetry(ev.errorType)
     /\ config.retries >= 1) =>
        (ev.retried /\ ev.delay = getRetryDelay(1))

\* C33: counter conservation: every breaker has successfulRequests +
\* failedRequests <= totalRequests in every reachable state, in
\* full-protection and in lightweight mode, so that the average response
\* time, never computed over 0 requests, is a number.
C33_CounterConservation ==
    \A b \in BreakerNames :
        LET st == circuitBreakers[b].stats
        IN /\ st.successfulRequests + st.failedRequests <= st.totalRequests
           /\ st.averageResponseTime[1] = "num"

\* C34: circuitOpenCount is the number of times the breaker entered OPEN from
\* another state: it changes only by 1 up, in a step that takes the breaker
\* from CLOSED or HALF_OPEN to OPEN, and never while the breaker is OPEN.
C34_CountsOpenings ==
    [][\A b \in BreakerNames :
          LET old == circuitBreakers[b]
              new == circuitBreakers'[b]
          IN new.stats.circuitOpenCount # old.stats.circuitOpenCount =>
                /\ old.state # "OPEN"
                /\ new.state = "OPEN"
                /\ new.stats.circuitOpenCount = old.stats.circuitOpenCount + 1]_vars

\* C35: an execute() call rejected because the circuit is open changes
\* nothing of its breaker except totalRequests, which grows by 1: state,
\* failureCount, lastFailureTime, failedRequests, timeouts, circuitOpenCount
\* and every other field are as before, and the other breaker is untouched,
\* so rejected calls never extend the cool-down.
C35_RejectionFrame ==
    [][(ev'.kind \in {"update", "wake"} /\ ev'.mode = "full" /\ ev'.rejected) =>
          /\ circuitBreakers[ev'.cb].state = "OPEN"
          /\ circuitBreakers'[ev'.cb] =
                 [circuitBreakers[ev'.cb] EXCEPT !.stats.totalRequests = @ + 1]
          /\ \A b \in BreakerNames \ {ev'.cb} :
                 circuitBreakers'[b] = circuitBreakers[b]]_vars

C35_Witness ==
    /\ BeganExecute /\ ev.rejected
    /\ circuitBreakers[ev.cb].state = "OPEN"
    /\ circuitBreakers[ev.cb].lastFailureTime < now
    /\ circuitBreakers[ev.cb].stats.totalRequests
           > circuitBreakers[ev.cb].stats.failedRequests
               + circuitBreakers[ev.cb].stats.successfulRequests

\* C36: the cool-down deadline of an OPEN breaker is fixed when it opens:
\* lastFailureTime does not change while the state is OPEN, whatever calls
\* were in flight when the circuit opened.
C36_FixedDeadline ==
    [][\A b \in BreakerNames :
          (circuitBreakers[b].state = "OPEN" /\ circuitBreakers'[b].state = "OPEN")
              => circuitBreakers'[b].lastFailureTime
                     = circuitBreakers[b].lastFailureTime]_vars

\* The network breaker is OPEN while nothing is left that would call it: no
\* update() call is in progress, consecutiveFailures is 0 and the main
\* breaker is CLOSED, so that the next call goes to the main breaker, is
\* admitted and, the dependency having recovered, succeeds and leaves
\* consecutiveFailures at 0.  getHealthStatus() reports CRITICAL (DEGRADED
\* once the last success is stale) in such a state.
NetworkLeftOpen ==
    /\ circuitBreakers["network"].state = "OPEN"
    /\ circuitBreakers["main"].state = "CLOSED"
    /\ consecutiveFailures = 0
    /\ \A c \in Callers : calls[c].pc = "idle"
    /\ getHealthStatus(circuitBreakers, consecutiveFailures,
                       lastSuccessfulUpdate, now) # "HEALTHY"

C39_OpenIsUnhealthy ==
    (ev.kind = "GET /health" /\ AnyOpen) =>
        (ev.http = 503 /\ ev.body = "DEGRADED")

\* C40: the configured max-retries value is honoured as given: with max
\* retries configured as 0, an update() call whose first attempt fails with
\* a retryable error is not retried; it has invoked the operation exactly
\* once and returns the fallback.
C40_ZeroRetries ==
    (/\ SettledExecute /\ ev.outcome \in {"error", "timeout"}
     /\ ev.failures = 1
     /\ shouldRetry(ev.errorType)) =>
        /\ ~ev.retried /\ Returned
        /\ ev.invocations = 1
        /\ ev.value.kind = "fallback"

====
